---- MODULE Spec2Model ----
(***************************************************************************)
(* Model of quantabox/path_hdfs: io/path.py (Path) and io/hdfs.py          *)
(* (HDFSContext, HDFSFile).                                                *)
(*                                                                         *)
(* A path string is kept as the sequence of its "/"-separated segments:    *)
(* "/s/f" is <<"", "s", "f">>, "hdfs://r/s" is <<"hdfs:", "", "r", "s">>,  *)
(* "" is <<"">>.  The two backends are functions from resolved keys to     *)
(* entries.  Every Path operation is one action; the remote interactions   *)
(* it makes (connect, primitives, close) are appended to log.              *)
(***************************************************************************)
EXTENDS Integers, Sequences, FiniteSets, TLC

VARIABLES
    local,   \* the local backend: key -> entry
    remote,  \* the remote backend: key -> entry
    open,    \* the connections that are open
    held,    \* the connection handle the caller acquired itself (0: none)
    scope,   \* the "with path.open(...)" scope the caller is in
    log,     \* the events of the operation (or scope) last started
    last,    \* the call last made and its outcome
    hist,    \* the last write scope that truncated a file, and what it wrote
    text,    \* the text the caller writes in its scopes
    nOps,    \* the number of operations started
    pure,    \* a Path value being built and inspected: no backend involved
    ctx      \* one HDFSContext instance used on its own

vars ==
    <<local, remote, open, held, scope, log, last, hist, text, nOps, pure, ctx>>

-----------------------------------------------------------------------------
(* Bounds *)

MaxOps == 2

MaxFault == 2

MaxLen == 2

MaxBody == 1

-----------------------------------------------------------------------------
(* Path strings *)

Front(s) == SubSeq(s, 1, Len(s) - 1)

Last(s) == s[Len(s)]

NonEmpty(s) == SelectSeq(s, LAMBDA x : x # "")

StartsWithSep(s) == Len(s) >= 2 /\ s[1] = ""

EndsWithSep(s) == Len(s) >= 2 /\ Last(s) = ""

\* os.path.join(a, b) on POSIX
Join(a, b) ==
    IF StartsWithSep(b) THEN b
    ELSE IF a = <<"">> \/ EndsWithSep(a) THEN Front(a) \o b
    ELSE a \o b

\* Path.name: os.path.basename
Name(p) == <<Last(p)>>

\* Path.parent: "/".join(path.split("/")[:-1]); joining nothing gives ""
Parent(p) == IF Len(p) <= 1 THEN <<"">> ELSE Front(p)

\* urlparse(str(self)).scheme
Scheme(p) ==
    CASE p[1] = "hdfs:" -> "hdfs"
      [] p[1] = "viewfs:" -> "viewfs"
      [] OTHER -> ""

IsHdfs(p) == Scheme(p) \in {"hdfs", "viewfs"}

IsLocal(p) == ~IsHdfs(p)

-----------------------------------------------------------------------------
(* Backends: key -> entry.  A key is the normalised component list, with a *)
(* leading "" when absolute.                                               *)

\* how the operating system resolves a path string
LocalKey(p) == (IF StartsWithSep(p) THEN <<"">> ELSE <<>>) \o NonEmpty(p)

\* how the remote client resolves a path string: scheme and authority are
\* dropped, the rest is a path from the root of the remote file system
RemoteKey(p) ==
    IF IsHdfs(p) /\ Len(p) >= 3 /\ p[2] = ""
    THEN <<"">> \o NonEmpty(SubSeq(p, 4, Len(p)))
    ELSE LocalKey(p)

DirEntry == [dir |-> TRUE, data |-> <<>>]

FileEntry(d) == [dir |-> FALSE, data |-> d]

IsPrefix(a, b) == Len(a) <= Len(b) /\ SubSeq(b, 1, Len(a)) = a

Ancestors(k) == {SubSeq(k, 1, n) : n \in 1..(Len(k) - 1)}

FsExists(fs, k) == k \in DOMAIN fs

FsIsDir(fs, k) == k \in DOMAIN fs /\ fs[k].dir

FsIsFile(fs, k) == k \in DOMAIN fs /\ ~fs[k].dir

FsChildren(fs, k) == {c \in DOMAIN fs : Len(c) = Len(k) + 1 /\ IsPrefix(k, c)}

FsPut(fs, k, e) == [x \in DOMAIN fs \cup {k} |-> IF x = k THEN e ELSE fs[x]]

FsRemove(fs, ks) == [x \in DOMAIN fs \ ks |-> fs[x]]

FsRmTree(fs, k) == FsRemove(fs, {x \in DOMAIN fs : IsPrefix(k, x)})

\* the key and every missing ancestor become directories
FsMakeDirs(fs, k) ==
    [x \in DOMAIN fs \cup Ancestors(k) \cup {k} |->
        IF x \in DOMAIN fs THEN fs[x] ELSE DirEntry]

\* no ancestor of k is a file
AncestorsOk(fs, k) == \A a \in Ancestors(k) : ~FsIsFile(fs, a)

ParentIsDir(fs, k) == Len(k) >= 1 /\ (Len(k) = 1 \/ FsIsDir(fs, Front(k)))

\* every missing ancestor of k becomes a directory
FsMakeParents(fs, k) ==
    [x \in DOMAIN fs \cup Ancestors(k) |->
        IF x \in DOMAIN fs THEN fs[x] ELSE DirEntry]

-----------------------------------------------------------------------------
(* One operation in progress: the backends, the open connections, the      *)
(* events so far, the count of remote interactions, the index of the       *)
(* interaction that fails (0: none), and the pending exception and result. *)

MaxOf(S) == IF S = {} THEN 0 ELSE CHOOSE x \in S : \A y \in S : y <= x

Begin(fault) ==
    [local |-> local, remote |-> remote, open |-> open, log |-> <<>>,
     n |-> 0, fault |-> fault, exc |-> "none", ret |-> FALSE, conn |-> 0,
     list |-> <<>>]

Ok(c) == c.exc = "none"

Raise(c, e) == [c EXCEPT !.exc = e]

Emit(c, ev, id) == [c EXCEPT !.log = Append(@, [ev |-> ev, id |-> id])]

Tick(c) == [c EXCEPT !.n = @ + 1]

Fails(c) == c.fault = c.n + 1

NewId(c) == 1 + MaxOf(c.open \cup {c.log[i].id : i \in DOMAIN c.log})

\* pyarrow.hdfs.connect() / pyarrow.hdfs.HadoopFileSystem(): a new connection
Connect(c) ==
    IF Fails(c) THEN Raise(Tick(c), "ConnectionError")
    ELSE LET id == NewId(c)
         IN Emit([Tick(c) EXCEPT !.open = @ \cup {id}, !.conn = id],
                 "connect", id)

\* HDFSContext.__enter__
HDFSContextEnter(c) == Connect(c)

\* a context that releases its connection only when the body did not raise
HDFSContextExitOnSuccess(c, id) ==
    IF Ok(c) THEN Emit([c EXCEPT !.open = @ \ {id}], "close", id) ELSE c

\* HDFSContext.__exit__: closes, returns None, so a pending error goes on
HDFSContextExit(c, id) == Emit([c EXCEPT !.open = @ \ {id}], "close", id)

\* "with HDFSContext() as hdfs: body": c1 is the state after __enter__,
\* c2 the state after the body; __exit__ runs iff __enter__ returned
WithExit(c1, c2) == IF Ok(c1) THEN HDFSContextExit(c2, c1.conn) ELSE c1

\* a call on a connection handle: it raises on a closed handle or when the
\* backend fails
CallOk(c, h) == h \in c.open /\ ~Fails(c)

RExists(c, h, p) ==
    IF ~CallOk(c, h) THEN Raise(Tick(c), "IOError")
    ELSE Emit([Tick(c) EXCEPT !.ret = FsExists(c.remote, RemoteKey(p))],
              "exists", h)

RIsDir(c, h, p) ==
    IF ~CallOk(c, h) THEN Raise(Tick(c), "IOError")
    ELSE Emit([Tick(c) EXCEPT !.ret = FsIsDir(c.remote, RemoteKey(p))],
              "isdir", h)

RIsFile(c, h, p) ==
    IF ~CallOk(c, h) THEN Raise(Tick(c), "IOError")
    ELSE Emit([Tick(c) EXCEPT !.ret = FsIsFile(c.remote, RemoteKey(p))],
              "isfile", h)

\* handle.mkdir(path): creates the directory and any missing parents
RMkdir(c, h, p) ==
    LET k == RemoteKey(p)
    IN IF ~CallOk(c, h) THEN Raise(Tick(c), "IOError")
       ELSE IF FsIsFile(c.remote, k) \/ ~AncestorsOk(c.remote, k)
       THEN Raise(Emit(Tick(c), "mkdir", h), "IOError")
       ELSE Emit([Tick(c) EXCEPT !.remote = FsMakeDirs(@, k)], "mkdir", h)

\* handle.rm(path, recursive=True)
RRm(c, h, p) ==
    LET k == RemoteKey(p)
    IN IF ~CallOk(c, h) THEN Raise(Tick(c), "IOError")
       ELSE IF ~FsExists(c.remote, k)
       THEN Raise(Emit(Tick(c), "rm", h), "IOError")
       ELSE Emit([Tick(c) EXCEPT !.remote = FsRmTree(@, k)], "rm", h)

\* handle.delete(path): not recursive
RDelete(c, h, p) ==
    LET k == RemoteKey(p)
    IN IF ~CallOk(c, h) THEN Raise(Tick(c), "IOError")
       ELSE IF ~FsExists(c.remote, k) \/ FsChildren(c.remote, k) # {}
       THEN Raise(Emit(Tick(c), "delete", h), "IOError")
       ELSE Emit([Tick(c) EXCEPT !.remote = FsRemove(@, {k})], "delete", h)

\* pathlib.Path.mkdir(parents, exist_ok)
LMkdir(c, p, parents, exist_ok) ==
    LET k == LocalKey(p)
        d == Emit(c, "l.mkdir", 0)
    IN IF FsExists(c.local, k)
       THEN IF exist_ok /\ FsIsDir(c.local, k) THEN d
            ELSE Raise(d, "FileExistsError")
       ELSE IF ParentIsDir(c.local, k)
       THEN [d EXCEPT !.local = FsPut(@, k, DirEntry)]
       ELSE IF ~AncestorsOk(c.local, k) THEN Raise(d, "NotADirectoryError")
       ELSE IF parents THEN [d EXCEPT !.local = FsMakeDirs(@, k)]
       ELSE Raise(d, "FileNotFoundError")

\* shutil.rmtree
LRmTree(c, p) ==
    LET k == LocalKey(p)
        d == Emit(c, "l.rmtree", 0)
    IN IF FsIsDir(c.local, k) THEN [d EXCEPT !.local = FsRmTree(@, k)]
       ELSE Raise(d, "FileNotFoundError")

\* pathlib.Path.unlink
LUnlink(c, p) ==
    LET k == LocalKey(p)
        d == Emit(c, "l.unlink", 0)
    IN IF FsIsFile(c.local, k) THEN [d EXCEPT !.local = FsRemove(@, {k})]
       ELSE Raise(d, "FileNotFoundError")

-----------------------------------------------------------------------------
(* Path operations.  fsys = 0 stands for filesystem=None, any other value  *)
(* is the connection handle the caller supplies.                           *)

\* an exists that goes by the scheme and uses a handle for remote paths only
PathExistsByScheme(c, p, fsys) ==
    IF ~IsHdfs(p) THEN [c EXCEPT !.ret = FsExists(c.local, LocalKey(p))]
    ELSE IF fsys # 0 THEN RExists(c, fsys, p)
    ELSE LET c1 == HDFSContextEnter(c)
         IN WithExit(c1, RExists(c1, c1.conn, p))

\* Path.exists
PathExists(c, p, fsys) ==
    IF fsys # 0 THEN RExists(c, fsys, p)
    ELSE IF IsHdfs(p)
    THEN LET c1 == HDFSContextEnter(c)
         IN WithExit(c1, RExists(c1, c1.conn, p))
    ELSE [c EXCEPT !.ret = FsExists(c.local, LocalKey(p))]

\* Path.is_dir
PathIsDir(c, p, fsys) ==
    IF fsys # 0 THEN RIsDir(c, fsys, p)
    ELSE IF IsHdfs(p)
    THEN LET c1 == HDFSContextEnter(c)
         IN WithExit(c1, RIsDir(c1, c1.conn, p))
    ELSE [c EXCEPT !.ret = FsIsDir(c.local, LocalKey(p))]

\* Path.is_file
PathIsFile(c, p, fsys) ==
    IF fsys # 0 THEN RIsFile(c, fsys, p)
    ELSE IF IsHdfs(p)
    THEN LET c1 == HDFSContextEnter(c)
         IN WithExit(c1, RIsFile(c1, c1.conn, p))
    ELSE [c EXCEPT !.ret = FsIsFile(c.local, LocalKey(p))]

\* a mkdir that raises on an existing directory whatever exist_ok says
PathMkdirStrict(c, p, parents, exist_ok, fsys) ==
    LET c1 == PathIsDir(c, p, fsys)
    IN IF ~Ok(c1) THEN c1
       ELSE IF c1.ret THEN Raise(c1, "OSError")
       ELSE IF fsys # 0 THEN RMkdir(c1, fsys, p)
       ELSE IF IsHdfs(p)
       THEN LET c2 == HDFSContextEnter(c1)
            IN WithExit(c2, RMkdir(c2, c2.conn, p))
       ELSE LMkdir(c1, p, parents, exist_ok)

\* Path.mkdir
PathMkdir(c, p, parents, exist_ok, fsys) ==
    LET c1 == PathIsDir(c, p, fsys)
    IN IF ~Ok(c1) THEN c1
       ELSE IF c1.ret
       THEN IF exist_ok THEN c1 ELSE Raise(c1, "OSError")
       ELSE IF fsys # 0 THEN RMkdir(c1, fsys, p)
       ELSE IF IsHdfs(p)
       THEN LET c2 == HDFSContextEnter(c1)
            IN WithExit(c2, RMkdir(c2, c2.conn, p))
       ELSE LMkdir(c1, p, parents, exist_ok)

\* a delete_dir that removes the directory entry and leaves what is beneath
PathDeleteDirFlat(c, p, fsys) ==
    LET c1 == PathIsDir(c, p, fsys)
        k == IF fsys # 0 \/ IsHdfs(p) THEN RemoteKey(p) ELSE LocalKey(p)
    IN IF ~Ok(c1) THEN c1
       ELSE IF ~c1.ret THEN Raise(c1, "FileNotFoundError")
       ELSE IF fsys # 0 \/ IsHdfs(p)
       THEN [c1 EXCEPT !.remote = FsRemove(@, {k})]
       ELSE [c1 EXCEPT !.local = FsRemove(@, {k})]

\* Path.delete_dir
PathDeleteDir(c, p, fsys) ==
    LET c1 == PathIsDir(c, p, fsys)
    IN IF ~Ok(c1) THEN c1
       ELSE IF ~c1.ret THEN Raise(c1, "FileNotFoundError")
       ELSE IF fsys # 0 THEN RRm(c1, fsys, p)
       ELSE IF IsHdfs(p)
       THEN LET c2 == HDFSContextEnter(c1)
            IN WithExit(c2, RRm(c2, c2.conn, p))
       ELSE LRmTree(c1, p)

\* a delete that returns quietly when the path is not a file
PathDeleteQuiet(c, p, fsys) ==
    LET c1 == PathIsFile(c, p, fsys)
    IN IF ~Ok(c1) \/ ~c1.ret THEN c1
       ELSE IF fsys # 0 THEN RDelete(c1, fsys, p)
       ELSE IF IsHdfs(p)
       THEN LET c2 == HDFSContextEnter(c1)
            IN WithExit(c2, RDelete(c2, c2.conn, p))
       ELSE LUnlink(c1, p)

\* Path.delete
PathDelete(c, p, fsys) ==
    LET c1 == PathIsFile(c, p, fsys)
    IN IF ~Ok(c1) THEN c1
       ELSE IF ~c1.ret THEN Raise(c1, "FileNotFoundError")
       ELSE IF fsys # 0 THEN RDelete(c1, fsys, p)
       ELSE IF IsHdfs(p)
       THEN LET c2 == HDFSContextEnter(c1)
            IN WithExit(c2, RDelete(c2, c2.conn, p))
       ELSE LUnlink(c1, p)

\* HadoopFileSystem.download(path, stream=dest): the remote file is opened
\* for reading, then the local file dest is opened with 'wb' and filled
Download(c, h, p, dest) ==
    LET rk == RemoteKey(p)
        lk == LocalKey(dest)
    IN IF ~CallOk(c, h) \/ ~FsIsFile(c.remote, rk)
       THEN Raise(Tick(c), "IOError")
       ELSE IF FsIsDir(c.local, lk) THEN Raise(Tick(c), "IsADirectoryError")
       ELSE IF ~ParentIsDir(c.local, lk)
       THEN Raise(Tick(c), "FileNotFoundError")
       ELSE Emit([Tick(c) EXCEPT
                     !.local = FsPut(@, lk, FileEntry(c.remote[rk].data))],
                 "download", h)

\* HadoopFileSystem.upload(dest, stream): the remote file dest is created
\* (with missing parents) and filled from the stream
Upload(c, h, dest, data) ==
    LET rk == RemoteKey(dest)
    IN IF ~CallOk(c, h) \/ FsIsDir(c.remote, rk) \/ ~AncestorsOk(c.remote, rk)
       THEN Raise(Tick(c), "IOError")
       ELSE Emit([Tick(c) EXCEPT
                     !.remote = FsPut(FsMakeParents(@, rk), rk,
                                      FileEntry(data))],
                 "upload", h)

\* shutil.copy(src, dst)
LCopy(c, p, dest) ==
    LET sk == LocalKey(p)
        dk == IF FsIsDir(c.local, LocalKey(dest))
              THEN LocalKey(Join(dest, Name(p))) ELSE LocalKey(dest)
    IN IF ~FsIsFile(c.local, sk) \/ ~ParentIsDir(c.local, dk)
       THEN Raise(c, "FileNotFoundError")
       ELSE Emit([c EXCEPT !.local = FsPut(@, dk, FileEntry(c.local[sk].data))],
                 "l.copy", 0)

\* Path.copy_file
PathCopyFile(c, p, dest, fsys) ==
    LET c1 == PathIsFile(c, p, fsys)
    IN IF ~Ok(c1) THEN c1
       ELSE IF ~c1.ret THEN Raise(c1, "FileNotFoundError")
       ELSE IF IsHdfs(p)
       THEN LET c2 == Connect(c1)
            IN IF Ok(c2) THEN Download(c2, c2.conn, p, Join(dest, Name(p)))
               ELSE c2
       ELSE IF IsLocal(p)
       THEN IF FsIsDir(c1.local, LocalKey(p))
            THEN Raise(c1, "IsADirectoryError")
            ELSE IF ~FsIsFile(c1.local, LocalKey(p))
            THEN Raise(c1, "FileNotFoundError")
            ELSE LET c2 == Connect(c1)
                 IN IF Ok(c2)
                    THEN Upload(c2, c2.conn, Join(dest, Name(p)),
                                c1.local[LocalKey(p)].data)
                    ELSE c2
       ELSE LCopy(c1, p, dest)

RECURSIVE SetToSeq(_)
SetToSeq(S) ==
    IF S = {} THEN <<>>
    ELSE LET x == CHOOSE y \in S : TRUE IN <<x>> \o SetToSeq(S \ {x})

\* pathlib.Path(str(self)).glob("*"): the direct children, as path strings
LGlobAll(c, p) == SetToSeq(FsChildren(c.local, LocalKey(p)))

\* Path.glob: a generator over the matches for a local path (ret is TRUE),
\* and no return statement, hence None, for a remote one (ret is FALSE)
PathGlob(c, p) ==
    IF ~IsHdfs(p) THEN [c EXCEPT !.ret = TRUE, !.list = LGlobAll(c, p)]
    ELSE [c EXCEPT !.ret = FALSE]

\* "for path in self.glob(pattern)": iterating None raises TypeError
IterGlob(c, p) ==
    LET g == PathGlob(c, p)
    IN IF g.ret THEN g ELSE Raise(g, "TypeError")

RECURSIVE PathCopyDir(_, _, _, _, _), CopyEntries(_, _, _, _, _)

\* the loop of Path.copy_dir over the entries glob yields
CopyEntries(c, entries, dest, recursive, fsys) ==
    IF entries = <<>> \/ ~Ok(c) THEN c
    ELSE LET path == Head(entries)
             sub == Join(dest, Name(path))
             c1 == PathIsFile(c, path, fsys)
             c2 == PathIsDir(c1, path, fsys)
             c3 == IF ~Ok(c1) THEN c1
                   ELSE IF c1.ret THEN PathCopyFile(c1, path, sub, fsys)
                   ELSE IF ~Ok(c2) THEN c2
                   ELSE IF c2.ret
                   THEN IF recursive
                        THEN PathCopyDir(c2, path, sub, recursive, fsys)
                        ELSE c2
                   ELSE Raise(c2, "Exception")
         IN CopyEntries(c3, Tail(entries), dest, recursive, fsys)

\* a copy_dir that creates dest before it looks at its source
PathCopyDirEager(c, p, dest, recursive, fsys) ==
    LET c1 == PathMkdir(c, dest, TRUE, TRUE, fsys)
        c2 == PathIsDir(c1, p, fsys)
    IN IF ~Ok(c1) THEN c1
       ELSE IF ~Ok(c2) THEN c2
       ELSE IF ~c2.ret THEN Raise(c2, "FileNotFoundError")
       ELSE LET g == IterGlob(c2, p)
            IN IF ~Ok(g) THEN g
               ELSE CopyEntries([g EXCEPT !.list = <<>>], g.list, dest,
                                recursive, fsys)

\* Path.copy_dir; Path.glob returns None for a remote path, and iterating
\* None raises TypeError
PathCopyDir(c, p, dest, recursive, fsys) ==
    LET c1 == PathIsDir(c, p, fsys)
        c2 == PathMkdir(c1, dest, TRUE, TRUE, fsys)
    IN IF ~Ok(c1) THEN c1
       ELSE IF ~c1.ret THEN Raise(c1, "FileNotFoundError")
       ELSE IF ~Ok(c2) THEN c2
       ELSE LET g == IterGlob(c2, p)
            IN IF ~Ok(g) THEN g
               ELSE CopyEntries([g EXCEPT !.list = <<>>], g.list, dest,
                                recursive, fsys)

\* handle.ls(path): the direct children as path strings under the same
\* scheme and authority; a file lists itself
RLs(c, h, p) ==
    LET k == RemoteKey(p)
        pre == IF IsHdfs(p) /\ Len(p) >= 3 THEN SubSeq(p, 1, 3) ELSE <<"">>
        str(x) == pre \o Tail(x)
    IN IF ~CallOk(c, h) \/ ~FsExists(c.remote, k)
       THEN Raise(Tick(c), "IOError")
       ELSE Emit([Tick(c) EXCEPT !.list =
                     IF FsIsFile(c.remote, k) THEN <<p>>
                     ELSE [i \in DOMAIN SetToSeq(FsChildren(c.remote, k)) |->
                              str(SetToSeq(FsChildren(c.remote, k))[i])]],
                 "ls", h)

\* an iterdir that lists only when the sequence is consumed, after the
\* connection scope has been left
PathIterdirLazy(c, p, fsys) ==
    IF fsys # 0 THEN RLs(c, fsys, p)
    ELSE IF IsHdfs(p)
    THEN LET c1 == HDFSContextEnter(c)
         IN IF ~Ok(c1) THEN c1
            ELSE RLs(HDFSContextExit(c1, c1.conn), c1.conn, p)
    ELSE [c EXCEPT !.list = LGlobAll(c, p)]

\* Path.iterdir: list(...) is evaluated when the generator expression is
\* created, inside the connection scope
PathIterdir(c, p, fsys) ==
    IF fsys # 0 THEN RLs(c, fsys, p)
    ELSE IF IsHdfs(p)
    THEN LET c1 == HDFSContextEnter(c)
         IN WithExit(c1, RLs(c1, c1.conn, p))
    ELSE [c EXCEPT !.list = LGlobAll(c, p)]

-----------------------------------------------------------------------------
(* Text: a text is a sequence of code points, file content a sequence of   *)
(* bytes.                                                                  *)

CR == 13

LF == 10

Chars == {LF, CR, 233}

RECURSIVE SeqsUpTo(_, _)
SeqsUpTo(S, n) ==
    IF n = 0 THEN {<<>>}
    ELSE LET shorter == SeqsUpTo(S, n - 1)
         IN shorter \cup {Append(t, x) : t \in shorter, x \in S}

Texts == SeqsUpTo(Chars, MaxLen)

\* one code point in UTF-8
Utf8Char(cp) ==
    IF cp < 128 THEN <<cp>>
    ELSE IF cp < 2048 THEN <<192 + (cp \div 64), 128 + (cp % 64)>>
    ELSE <<224 + (cp \div 4096), 128 + ((cp \div 64) % 64), 128 + (cp % 64)>>

RECURSIVE EncodeSeq(_, _)
EncodeSeq(t, enc) ==
    IF t = <<>> THEN <<>>
    ELSE (IF enc = "utf-8" THEN Utf8Char(Head(t)) ELSE <<Head(t)>>)
         \o EncodeSeq(Tail(t), enc)

\* str.encode(encoding): latin-1 has no code point above 255
CanEncode(t, enc) ==
    enc = "utf-8" \/ (enc = "latin-1" /\ \A i \in DOMAIN t : t[i] < 256)

IsCont(b) == b >= 128 /\ b < 192

\* bytes.decode("utf-8"): <<-1>> marks undecodable input
RECURSIVE Utf8Decode(_)
Utf8Decode(b) ==
    IF b = <<>> THEN <<>>
    ELSE LET rest(n, cp) ==
                 LET r == Utf8Decode(SubSeq(b, n + 1, Len(b)))
                 IN IF r = <<-1>> THEN r ELSE <<cp>> \o r
         IN IF b[1] < 128 THEN rest(1, b[1])
            ELSE IF b[1] >= 194 /\ b[1] < 224 /\ Len(b) >= 2 /\ IsCont(b[2])
            THEN rest(2, (b[1] - 192) * 64 + (b[2] - 128))
            ELSE IF b[1] >= 224 /\ b[1] < 240 /\ Len(b) >= 3
                    /\ IsCont(b[2]) /\ IsCont(b[3])
                    /\ (b[1] - 224) * 4096 + (b[2] - 128) * 64 >= 2048
            THEN rest(3, (b[1] - 224) * 4096 + (b[2] - 128) * 64
                         + (b[3] - 128))
            ELSE <<-1>>

\* bytes.decode(encoding)
Decode(b, enc) == IF enc = "utf-8" THEN Utf8Decode(b) ELSE b

\* reading a local text stream (newline=None): "\r\n" and "\r" become "\n"
RECURSIVE UniversalNewlines(_)
UniversalNewlines(t) ==
    IF t = <<>> THEN <<>>
    ELSE IF Head(t) = CR /\ Len(t) >= 2 /\ t[2] = LF
    THEN <<LF>> \o UniversalNewlines(SubSeq(t, 3, Len(t)))
    ELSE IF Head(t) = CR THEN <<LF>> \o UniversalNewlines(Tail(t))
    ELSE <<Head(t)>> \o UniversalNewlines(Tail(t))

-----------------------------------------------------------------------------
(* Streams and the scope of Path.open *)

\* the mode HDFSFile.__init__ hands to filesystem.open
NativeMode(mode) ==
    CASE mode = "r" -> "rb"
      [] mode = "w" -> "wb"
      [] OTHER -> mode

\* the mode in which the local file object is opened: text modes open the
\* same file the same way as their binary forms
LocalMode(mode) == IF mode = "a" THEN "ab" ELSE NativeMode(mode)

\* HDFSFile.__init__: filesystem.open(path, mode) on the handle h
HDFSFileInit(c, h, p, mode) ==
    LET k == RemoteKey(p)
        m == NativeMode(mode)
    IN IF ~CallOk(c, h) THEN Raise(Tick(c), "IOError")
       ELSE IF m = "rb"
       THEN IF FsIsFile(c.remote, k) THEN Emit(Tick(c), "stream.open", h)
            ELSE Raise(Tick(c), "IOError")
       ELSE IF m = "wb"
       THEN IF FsIsDir(c.remote, k) \/ ~AncestorsOk(c.remote, k)
            THEN Raise(Tick(c), "IOError")
            ELSE Emit([Tick(c) EXCEPT
                          !.remote = FsPut(FsMakeParents(@, k), k,
                                           FileEntry(<<>>))],
                      "stream.open", h)
       ELSE IF m = "ab"
       THEN IF FsIsFile(c.remote, k) THEN Emit(Tick(c), "stream.open", h)
            ELSE Raise(Tick(c), "IOError")
       ELSE Raise(Tick(c), "ValueError")

\* pathlib.Path.open(mode, encoding)
LOpen(c, p, mode) ==
    LET k == LocalKey(p)
        m == LocalMode(mode)
    IN IF FsIsDir(c.local, k) THEN Raise(c, "IsADirectoryError")
       ELSE IF m = "rb"
       THEN IF FsIsFile(c.local, k) THEN Emit(c, "l.open", 0)
            ELSE Raise(c, "FileNotFoundError")
       ELSE IF m = "wb"
       THEN IF ParentIsDir(c.local, k)
            THEN Emit([c EXCEPT !.local = FsPut(@, k, FileEntry(<<>>))],
                      "l.open", 0)
            ELSE Raise(c, "FileNotFoundError")
       ELSE IF m = "ab"
       THEN IF FsIsFile(c.local, k) THEN Emit(c, "l.open", 0)
            ELSE IF ParentIsDir(c.local, k)
            THEN Emit([c EXCEPT !.local = FsPut(@, k, FileEntry(<<>>))],
                      "l.open", 0)
            ELSE Raise(c, "FileNotFoundError")
       ELSE Raise(c, "ValueError")

\* Path.open up to its yield.  When HDFSFile(...) raises inside
\* "with HDFSContext()", the context's __exit__ runs before the error leaves
PathOpenEnter(c, p, mode, fsys) ==
    IF fsys # 0 THEN HDFSFileInit(c, fsys, p, mode)
    ELSE IF IsHdfs(p)
    THEN LET c1 == HDFSContextEnter(c)
             c2 == HDFSFileInit(c1, c1.conn, p, mode)
         IN IF ~Ok(c1) THEN c1
            ELSE IF ~Ok(c2) THEN HDFSContextExit(c2, c1.conn)
            ELSE c2
    ELSE LOpen(c, p, mode)

\* the encoding Path.open and HDFSFile.__init__ keep: none for binary modes
Encoding(mode, enc) == IF mode \in {"rb", "wb", "ab"} THEN "none" ELSE enc

NoScope ==
    [active |-> FALSE, backend |-> "none", p |-> <<"">>, mode |-> "r",
     enc |-> "none", fsys |-> 0, h |-> 0, own |-> 0, key |-> <<>>, pos |-> 0,
     steps |-> 0, written |-> <<>>, err |-> "none"]

NewScope(c, p, mode, enc, fsys) ==
    LET rem == fsys # 0 \/ IsHdfs(p)
    IN [active |-> TRUE,
        backend |-> IF rem THEN "remote" ELSE "local",
        p |-> p, mode |-> mode, enc |-> Encoding(mode, enc), fsys |-> fsys,
        h |-> IF fsys # 0 THEN fsys ELSE IF rem THEN c.conn ELSE 0,
        own |-> IF fsys = 0 /\ rem THEN c.conn ELSE 0,
        key |-> IF rem THEN RemoteKey(p) ELSE LocalKey(p),
        pos |-> 0, steps |-> 0, written |-> <<>>, err |-> "none"]

ScopeFs == IF scope.backend = "remote" THEN remote ELSE local

\* a write that refuses only the read modes
WriteErrorUnlessReading(data) ==
    IF scope.mode \in {"w", "a"}
    THEN IF CanEncode(data, scope.enc) THEN "none" ELSE "UnicodeEncodeError"
    ELSE IF scope.mode \in {"wb", "ab"} THEN "none"
    ELSE IF scope.backend = "remote" THEN "ValueError"
    ELSE "UnsupportedOperation"

\* the bytes a write(data) call stores, or the error it raises:
\* HDFSFile.write on the remote side, the file object's write locally
\* (os.linesep is "\n": a local text write stores the encoded text as is)
WriteError(data) ==
    IF scope.mode = "w"
    THEN IF CanEncode(data, scope.enc) THEN "none" ELSE "UnicodeEncodeError"
    ELSE IF scope.mode = "wb" THEN "none"
    ELSE IF scope.backend = "remote" THEN "ValueError"
    ELSE IF scope.mode = "a"
    THEN IF CanEncode(data, scope.enc) THEN "none" ELSE "UnicodeEncodeError"
    ELSE IF scope.mode = "ab" THEN "none"
    ELSE "UnsupportedOperation"

WriteBytes(data) ==
    IF scope.mode \in {"w", "a"} THEN EncodeSeq(data, scope.enc) ELSE data

\* the rest of the stream from the current position
Unread == SubSeq(ScopeFs[scope.key].data, scope.pos + 1,
                 Len(ScopeFs[scope.key].data))

\* what read() returns, or the error it raises: HDFSFile.read on the remote
\* side, the file object's read locally
ReadError ==
    IF scope.mode = "r"
    THEN IF Decode(Unread, scope.enc) = <<-1>> THEN "UnicodeDecodeError"
         ELSE "none"
    ELSE IF scope.mode = "rb" THEN "none"
    ELSE IF scope.backend = "remote" THEN "ValueError"
    ELSE "UnsupportedOperation"

ReadResult ==
    IF scope.mode = "rb" THEN Unread
    ELSE IF scope.backend = "remote" THEN Decode(Unread, scope.enc)
    ELSE UniversalNewlines(Decode(Unread, scope.enc))

-----------------------------------------------------------------------------
(* The caller: the paths, handles and faults it may use *)

Abs(names) == <<"">> \o names

OnHdfs(names) == <<"hdfs:", "", "r">> \o names

PathNames == {<<"s">>, <<"s", "f">>, <<"s", "a">>, <<"d">>}

Paths == {Abs(x) : x \in PathNames} \cup {OnHdfs(x) : x \in PathNames}

Dests == {Abs(<<"d">>), OnHdfs(<<"d">>)}

Modes == {"r", "rb", "w", "wb", "a", "ab"}

Encodings == {"utf-8", "latin-1"}

Faults == 0..MaxFault

Handles == {0} \cup (IF held \in open THEN {held} ELSE {})

TextPaths == {Abs(<<"s", "f">>), OnHdfs(<<"s", "f">>)}

EmptyTree == [k \in {Abs(<<>>)} |-> DirEntry]

TreeS ==
    [k \in {Abs(<<>>), Abs(<<"s">>), Abs(<<"s", "f">>), Abs(<<"s", "a">>),
            Abs(<<"s", "a", "f">>), Abs(<<"d">>)} |->
        IF k = Abs(<<"s", "f">>) THEN FileEntry(<<65>>)
        ELSE IF k = Abs(<<"s", "a", "f">>) THEN FileEntry(<<66>>)
        ELSE DirEntry]

NoHist ==
    [valid |-> FALSE, p |-> <<"">>, fsys |-> 0, mode |-> "w", enc |-> "none",
     text |-> <<>>]

\* the record of a call and its outcome
Outcome(op, p, dest, fsys, a, b, c) ==
    [op |-> op, p |-> p, dest |-> dest, fsys |-> fsys, a |-> a, b |-> b,
     faulted |-> c.fault # 0 /\ c.fault <= c.n,
     exc |-> c.exc, ret |-> c.ret, list |-> c.list, data |-> <<>>]

NoCall == Outcome("none", <<"">>, <<"">>, 0, FALSE, FALSE, Begin(0))

\* no Path value is being inspected
NoPure ==
    [stage |-> "none", args |-> <<>>, path |-> <<>>, from |-> <<>>,
     classified |-> FALSE, hdfs |-> FALSE, local |-> FALSE]

\* HDFSContext.__init__: self._hdfs = None; nothing entered yet
NoCtx == [hdfs |-> 0, depth |-> 0, mine |-> {}, exited |-> FALSE,
          call |-> "none"]

\* the caller holds one connection of its own; nothing is in progress
Setup ==
    /\ local = TreeS
    /\ remote \in {EmptyTree, TreeS}
    /\ held = 1
    /\ open = {held}
    /\ scope = NoScope
    /\ log = <<>>
    /\ hist = NoHist
    /\ nOps = 0
    /\ last = NoCall
    /\ ctx = NoCtx

Init == Setup /\ text = <<65>> /\ pure = NoPure

InitText == Setup /\ text \in Texts /\ pure = NoPure

CanCall == nOps < MaxOps /\ ~scope.active /\ last.op = "none"

\* the state a finished operation leaves
Finish(c, rec) ==
    /\ c.fault <= c.n
    /\ local' = c.local
    /\ remote' = c.remote
    /\ open' = c.open
    /\ log' = c.log
    /\ last' = rec
    /\ nOps' = nOps + 1
    /\ hist' = NoHist
    /\ UNCHANGED <<held, scope, text>>
    /\ UNCHANGED <<pure, ctx>>

Exists(p, fsys, fault) ==
    /\ CanCall
    /\ LET c == PathExists(Begin(fault), p, fsys)
       IN Finish(c, Outcome("exists", p, <<"">>, fsys, FALSE, FALSE, c))

IsDir(p, fsys, fault) ==
    /\ CanCall
    /\ LET c == PathIsDir(Begin(fault), p, fsys)
       IN Finish(c, Outcome("is_dir", p, <<"">>, fsys, FALSE, FALSE, c))

IsFile(p, fsys, fault) ==
    /\ CanCall
    /\ LET c == PathIsFile(Begin(fault), p, fsys)
       IN Finish(c, Outcome("is_file", p, <<"">>, fsys, FALSE, FALSE, c))

Iterdir(p, fsys, fault) ==
    /\ CanCall
    /\ LET c == PathIterdir(Begin(fault), p, fsys)
       IN Finish(c, Outcome("iterdir", p, <<"">>, fsys, FALSE, FALSE, c))

Mkdir(p, parents, exist_ok, fsys, fault) ==
    /\ CanCall
    /\ LET c == PathMkdir(Begin(fault), p, parents, exist_ok, fsys)
       IN Finish(c, Outcome("mkdir", p, <<"">>, fsys, parents, exist_ok, c))

DeleteDir(p, fsys, fault) ==
    /\ CanCall
    /\ LET c == PathDeleteDir(Begin(fault), p, fsys)
       IN Finish(c, Outcome("delete_dir", p, <<"">>, fsys, FALSE, FALSE, c))

Delete(p, fsys, fault) ==
    /\ CanCall
    /\ LET c == PathDelete(Begin(fault), p, fsys)
       IN Finish(c, Outcome("delete", p, <<"">>, fsys, FALSE, FALSE, c))

CopyFile(p, dest, fsys, fault) ==
    /\ CanCall
    /\ LET c == PathCopyFile(Begin(fault), p, dest, fsys)
       IN Finish(c, Outcome("copy_file", p, dest, fsys, FALSE, FALSE, c))

CopyDir(p, dest, recursive, fsys, fault) ==
    /\ CanCall
    /\ LET c == PathCopyDir(Begin(fault), p, dest, recursive, fsys)
       IN Finish(c, Outcome("copy_dir", p, dest, fsys, recursive, FALSE, c))

\* the caller iterates over path.glob("*")
Glob(p) ==
    /\ CanCall
    /\ LET c == IterGlob(Begin(0), p)
       IN Finish(c, Outcome("glob", p, <<"">>, 0, FALSE, FALSE, c))

\* the caller takes the next entry of the sequence iterdir or glob returned:
\* the generator builds Path(path) from the listing it already holds
Consume ==
    /\ ~scope.active
    /\ last.op \in {"iterdir", "glob"}
    /\ last.exc = "none"
    /\ last.list # <<>>
    /\ last' = [last EXCEPT !.list = Tail(@),
                            !.data = Append(@, Head(last.list))]
    /\ UNCHANGED <<local, remote, open, held, scope, log, hist, text, nOps>>
    /\ UNCHANGED <<pure, ctx>>

\* the caller has taken the outcome of the call; the next call starts with
\* an empty event log
Return ==
    /\ ~scope.active
    /\ last.op # "none"
    /\ last' = NoCall
    /\ log' = <<>>
    /\ UNCHANGED <<local, remote, open, held, scope, hist, text, nOps>>
    /\ UNCHANGED <<pure, ctx>>

\* "with path.open(mode, encoding, filesystem) as file:" up to the body
OpenEnter(p, mode, enc, fsys, fault) ==
    /\ CanCall
    /\ LET c == PathOpenEnter(Begin(fault), p, mode, fsys)
       IN /\ c.fault <= c.n
          /\ local' = c.local
          /\ remote' = c.remote
          /\ open' = c.open
          /\ log' = c.log
          /\ last' = Outcome("open", p, <<"">>, fsys, FALSE, FALSE, c)
          /\ scope' = IF Ok(c) THEN NewScope(c, p, mode, enc, fsys)
                      ELSE NoScope
          /\ hist' = IF Ok(c) /\ mode \in {"w", "wb"} THEN NoHist ELSE hist
    /\ nOps' = nOps + 1
    /\ UNCHANGED <<held, text>>
    /\ UNCHANGED <<pure, ctx>>

InBody == scope.active /\ scope.err = "none" /\ scope.steps < MaxBody

BodyOutcome(op, e, data) ==
    [Outcome(op, scope.p, <<"">>, scope.fsys, FALSE, FALSE, Begin(0))
        EXCEPT !.exc = e, !.data = data]

\* file.write(data) in the body: the text, or its bytes on a binary handle
ScopeWrite ==
    /\ InBody
    /\ LET data == IF scope.mode \in {"rb", "wb", "ab"}
                   THEN EncodeSeq(text, "utf-8") ELSE text
           e == WriteError(data)
           fs == [ScopeFs EXCEPT ![scope.key].data = @ \o WriteBytes(data)]
       IN /\ local' = IF e = "none" /\ scope.backend = "local" THEN fs
                      ELSE local
          /\ remote' = IF e = "none" /\ scope.backend = "remote" THEN fs
                       ELSE remote
          /\ scope' = IF e = "none"
                      THEN [scope EXCEPT !.steps = @ + 1,
                                         !.written = @ \o data]
                      ELSE [scope EXCEPT !.err = e]
          /\ last' = BodyOutcome("write", e, data)
    /\ UNCHANGED <<open, held, log, hist, text, nOps>>
    /\ UNCHANGED <<pure, ctx>>

\* file.read() in the body
ScopeRead ==
    /\ InBody
    /\ LET e == ReadError
       IN /\ scope' = IF e = "none"
                      THEN [scope EXCEPT !.steps = @ + 1,
                                         !.pos = Len(ScopeFs[scope.key].data)]
                      ELSE [scope EXCEPT !.err = e]
          /\ last' = BodyOutcome("read", e,
                                 IF e = "none" THEN ReadResult ELSE <<>>)
    /\ UNCHANGED <<local, remote, open, held, log, hist, text, nOps>>
    /\ UNCHANGED <<pure, ctx>>

\* the body raises an error of its own
ScopeRaise ==
    /\ InBody
    /\ scope' = [scope EXCEPT !.err = "BodyError"]
    /\ last' = BodyOutcome("raise", "BodyError", <<>>)
    /\ UNCHANGED <<local, remote, open, held, log, hist, text, nOps>>
    /\ UNCHANGED <<pure, ctx>>

\* leaving the scope: HDFSFile.__exit__ (or the local file's) closes the
\* stream and returns a false value; then HDFSContext.__exit__, if Path.open
\* entered a context; a pending error of the body goes on to the caller
ScopeExit ==
    /\ scope.active
    /\ LET c0 == [Begin(0) EXCEPT !.log = log, !.exc = scope.err]
           c1 == Emit(c0, IF scope.backend = "remote" THEN "stream.close"
                          ELSE "l.close", scope.h)
           c2 == IF scope.own # 0 THEN HDFSContextExit(c1, scope.own) ELSE c1
       IN /\ open' = c2.open
          /\ log' = c2.log
          /\ last' = BodyOutcome("exit", c2.exc, <<>>)
    /\ hist' = IF scope.mode \in {"w", "wb"}
               THEN [valid |-> TRUE, p |-> scope.p, fsys |-> scope.fsys,
                     mode |-> scope.mode, enc |-> scope.enc,
                     text |-> scope.written]
               ELSE hist
    /\ scope' = NoScope
    /\ UNCHANGED <<local, remote, held, text, nOps>>
    /\ UNCHANGED <<pure, ctx>>

Next ==
    \/ \E p \in Paths, fsys \in Handles, fault \in Faults :
          Exists(p, fsys, fault)
    \/ \E p \in Paths, fsys \in Handles, fault \in Faults :
          IsDir(p, fsys, fault)
    \/ \E p \in Paths, fsys \in Handles, fault \in Faults :
          IsFile(p, fsys, fault)
    \/ \E p \in Paths, fsys \in Handles, fault \in Faults :
          Iterdir(p, fsys, fault)
    \/ \E p \in Paths, fsys \in Handles, fault \in Faults :
          DeleteDir(p, fsys, fault)
    \/ \E p \in Paths, fsys \in Handles, fault \in Faults :
          Delete(p, fsys, fault)
    \/ \E p \in Paths, fsys \in Handles, fault \in Faults,
          parents \in BOOLEAN, exist_ok \in BOOLEAN :
          Mkdir(p, parents, exist_ok, fsys, fault)
    \/ \E p \in Paths, fsys \in Handles, fault \in Faults, dest \in Dests :
          CopyFile(p, dest, fsys, fault)
    \/ \E p \in Paths, fsys \in Handles, fault \in Faults, dest \in Dests,
          recursive \in BOOLEAN :
          CopyDir(p, dest, recursive, fsys, fault)
    \/ \E p \in Paths : Glob(p)
    \/ Consume
    \/ Return

Spec == Init /\ [][Next]_vars

\* the caller works through Path.open scopes
NextOpen ==
    \/ \E p \in TextPaths, mode \in Modes, fsys \in Handles, fault \in Faults :
          OpenEnter(p, mode, "utf-8", fsys, fault)
    \/ ScopeWrite
    \/ ScopeRead
    \/ ScopeRaise
    \/ ScopeExit
    \/ Return

SpecOpen == Init /\ [][NextOpen]_vars

\* the caller writes a text and reads it back, for every text and encoding
NextText ==
    \/ \E p \in TextPaths, mode \in {"r", "w"}, enc \in Encodings :
          OpenEnter(p, mode, enc, 0, 0)
    \/ ScopeWrite
    \/ ScopeRead
    \/ ScopeExit
    \/ Return

SpecText == InitText /\ [][NextText]_vars

-----------------------------------------------------------------------------
(* Connection handling of the Path operations *)

Events(ev) == {i \in DOMAIN log : log[i].ev = ev}

\* the close events for connection id after position i of the log
ClosesAfter(i, id) ==
    {j \in Events("close") : j > i /\ log[j].id = id}

C1Ops ==
    {"exists", "is_dir", "is_file", "mkdir", "delete", "delete_dir",
     "copy_file", "iterdir"}

\* C1: after an operation of C1Ops on a remote path without a supplied
\* handle has returned or raised, every connection it opened has been closed
\* exactly once, none was closed twice, and no connection besides the
\* caller's own is open.
C1_EveryConnectionClosedOnce ==
    (last.op \in C1Ops /\ IsHdfs(last.p) /\ last.fsys = 0) =>
        /\ \A i \in Events("connect") :
              Cardinality(ClosesAfter(i, log[i].id)) = 1
        /\ \A j \in Events("close") :
              Cardinality({i \in Events("connect") :
                              i < j /\ log[i].id = log[j].id}) = 1
        /\ open \subseteq {held}

AllOps ==
    {"exists", "is_dir", "is_file", "mkdir", "delete", "delete_dir",
     "copy_file", "copy_dir", "iterdir", "open"}

\* C2: an operation given an open connection handle opens no connection and
\* closes none, every remote call it makes goes through that handle, and the
\* handle is still open afterwards.
C2_SuppliedHandleOnly ==
    (last.op \in AllOps /\ last.fsys # 0) =>
        /\ Events("connect") = {}
        /\ Events("close") = {}
        /\ \A i \in DOMAIN log : log[i].id \in {0, last.fsys}
        /\ last.fsys \in open

\* C9: exists, is_dir and is_file never raise; when connecting or the remote
\* primitive fails, the result is false.
C9_ChecksNeverRaise ==
    (last.op \in {"exists", "is_dir", "is_file"}) =>
        /\ last.exc = "none"
        /\ last.faulted => last.ret = FALSE

-----------------------------------------------------------------------------
(* The scope of Path.open *)

Event(ev, id) == [ev |-> ev, id |-> id]

\* the scope belongs to a remote path opened without a supplied handle
OwnsConnection(p, fsys) == IsHdfs(p) /\ fsys = 0

C3Exit ==
    (scope.active /\ ~scope'.active /\ OwnsConnection(scope.p, scope.fsys)) =>
        /\ \E id \in open \ {held} :
              /\ log' = <<Event("connect", id), Event("stream.open", id),
                          Event("stream.close", id), Event("close", id)>>
              /\ open' = open \ {id}
        /\ last'.op = "exit"
        /\ last'.exc = scope.err

C3FailedEnter ==
    (/\ ~scope.active
     /\ last'.op = "open"
     /\ OwnsConnection(last'.p, last'.fsys)
     /\ last'.exc # "none") =>
        /\ ~scope'.active
        /\ open' = open
        /\ \/ log' = <<>>
           \/ \E id \in 1..(MaxOf(open) + 1) :
                 /\ id \notin open
                 /\ log' = <<Event("connect", id), Event("close", id)>>

\* C3: when the scope of Path.open on a remote path without a supplied handle
\* exits, whether the body completed or raised, the events of the scope are
\* connect, stream open, stream close, connection close, in this order and
\* once each, the connection is no longer open, and the error of the body is
\* the error the caller gets; when the construction of the file handle fails,
\* no stream was opened, the connection (if connecting succeeded) is closed
\* once, and the caller gets the error.
C3_StreamThenConnectionClosed == [][C3Exit /\ C3FailedEnter]_vars

\* a body that raised has left its scope: stream and connection are closed
C3_Witness ==
    /\ last.op = "exit"
    /\ last.exc = "BodyError"
    /\ OwnsConnection(last.p, last.fsys)
    /\ Len(log) = 4
    /\ log[3].ev = "stream.close"
    /\ log[4].ev = "close"
    /\ open = {held}

-----------------------------------------------------------------------------
(* delete and delete_dir *)

\* the backend an operation on p with the handle fsys addresses, and the key
\* of p there
Addressed(l, r, p, fsys) == IF fsys # 0 \/ IsHdfs(p) THEN r ELSE l

Other(l, r, p, fsys) == IF fsys # 0 \/ IsHdfs(p) THEN l ELSE r

KeyOf(p, fsys) == IF fsys # 0 \/ IsHdfs(p) THEN RemoteKey(p) ELSE LocalKey(p)

\* an operation op has just finished without an injected failure
Finished(op) == last.op = "none" /\ last'.op = op /\ ~last'.faulted

Untouched == local' = local /\ remote' = remote

C7Step ==
    Finished("delete") =>
        LET p == last'.p
            fsys == last'.fsys
            fs == Addressed(local, remote, p, fsys)
            after == Addressed(local', remote', p, fsys)
            k == KeyOf(p, fsys)
        IN IF FsIsFile(fs, k)
           THEN /\ last'.exc = "none"
                /\ DOMAIN after = DOMAIN fs \ {k}
                /\ \A j \in DOMAIN after : after[j] = fs[j]
                /\ Other(local', remote', p, fsys) = Other(local, remote, p, fsys)
                /\ ~FsExists(after, k)
           ELSE /\ last'.exc = "FileNotFoundError"
                /\ Untouched

\* C7: delete on a path that is an existing file removes exactly that entry:
\* the path no longer exists and every other entry of both backends is as
\* before; delete on a path that is absent or a directory raises
\* FileNotFoundError and changes nothing.
C7_DeleteRemovesExactlyTheFile == [][C7Step]_vars

\* a delete has removed a file while other entries remain
C7_Witness ==
    /\ last.op = "delete"
    /\ last.exc = "none"
    /\ ~last.faulted
    /\ ~FsExists(Addressed(local, remote, last.p, last.fsys),
                 KeyOf(last.p, last.fsys))
    /\ FsIsDir(Addressed(local, remote, last.p, last.fsys),
               Front(KeyOf(last.p, last.fsys)))

C8Step ==
    Finished("delete_dir") =>
        LET p == last'.p
            fsys == last'.fsys
            fs == Addressed(local, remote, p, fsys)
            after == Addressed(local', remote', p, fsys)
            k == KeyOf(p, fsys)
            gone == {j \in DOMAIN fs : IsPrefix(k, j)}
        IN IF FsIsDir(fs, k)
           THEN /\ last'.exc = "none"
                /\ DOMAIN after = DOMAIN fs \ gone
                /\ \A j \in DOMAIN after : after[j] = fs[j]
                /\ Other(local', remote', p, fsys) = Other(local, remote, p, fsys)
                /\ FsIsDir(after, Front(k))
           ELSE /\ last'.exc = "FileNotFoundError"
                /\ Untouched

\* C8: delete_dir on a path that is an existing directory removes the
\* directory and every entry beneath it, at any depth, and leaves every entry
\* outside that subtree, the parent directory included, as before; delete_dir
\* on a path that is absent or a file raises FileNotFoundError and changes
\* nothing.
C8_DeleteDirRemovesTheSubtree == [][C8Step]_vars

\* a delete_dir has removed a directory that had entries two levels deep
C8_Witness ==
    /\ last.op = "delete_dir"
    /\ last.exc = "none"
    /\ ~last.faulted
    /\ last.p = Abs(<<"s">>)
    /\ last.fsys = 0
    /\ DOMAIN local = {Abs(<<>>), Abs(<<"d">>)}

-----------------------------------------------------------------------------
(* copy_file and copy_dir *)

C4Step ==
    (/\ Finished("copy_file")
     /\ last'.fsys = 0
     /\ FsIsFile(Addressed(local, remote, last'.p, 0), KeyOf(last'.p, 0))
     /\ FsIsDir(Addressed(local, remote, last'.dest, 0),
                KeyOf(last'.dest, 0))) =>
        LET p == last'.p
            dest == last'.dest
            src == Addressed(local, remote, p, 0)[KeyOf(p, 0)]
            after == Addressed(local', remote', dest, 0)
            target == KeyOf(Join(dest, Name(p)), 0)
        IN /\ last'.exc = "none"
           /\ FsIsFile(after, target)
           /\ after[target].data = src.data
           /\ (IsHdfs(p) = IsHdfs(dest)) =>
                 Other(local', remote', p, 0) = Other(local, remote, p, 0)

\* C4: copy_file(dest) of an existing file into an existing directory, for
\* every combination of source and destination backend, returns and leaves a
\* file dest/<source name> with the source's bytes on the backend of dest, and
\* a copy within one backend leaves the other backend as it was.
C4_CopyFileLandsOnDestBackend == [][C4Step]_vars

C5Step ==
    (/\ Finished("copy_dir")
     /\ last'.fsys = 0
     /\ FsIsDir(Addressed(local, remote, last'.p, 0), KeyOf(last'.p, 0))) =>
        LET p == last'.p
            dest == last'.dest
            recursive == last'.a
            src == Addressed(local, remote, p, 0)
            sk == KeyOf(p, 0)
            dk == KeyOf(dest, 0)
            before == Addressed(local, remote, dest, 0)
            after == Addressed(local', remote', dest, 0)
            files == {k \in DOMAIN src :
                         /\ IsPrefix(sk, k)
                         /\ FsIsFile(src, k)
                         /\ recursive \/ Len(k) = Len(sk) + 1}
            To(k) == dk \o SubSeq(k, Len(sk) + 1, Len(k))
        IN /\ last'.exc = "none"
           /\ \A k \in files :
                 /\ FsIsFile(after, To(k))
                 /\ after[To(k)].data = src[k].data
           /\ ~recursive =>
                 DOMAIN after \subseteq
                     DOMAIN before \cup {dk} \cup Ancestors(dk)
                         \cup {To(k) : k \in files}

\* C5: copy_dir(dest, recursive) of an existing directory returns with every
\* file under the source (every depth when recursive, the direct children
\* otherwise) at the same relative path under dest with the same content, and
\* without recursive nothing else is created under dest.
C5_CopyDirKeepsRelativePaths == [][C5Step]_vars

-----------------------------------------------------------------------------
(* Text written and read back *)

\* C10: the first read() of a scope opened with "r", after a scope opened
\* with "w" on the same path and with the same encoding has written the text
\* T and exited, returns exactly T, on the local and on the remote backend.
C10_WriteThenReadReturnsText ==
    (/\ scope.active
     /\ scope.mode = "r"
     /\ last.op = "read"
     /\ scope.steps <= 1
     /\ hist.valid
     /\ hist.mode = "w"
     /\ hist.p = scope.p
     /\ hist.fsys = scope.fsys
     /\ hist.enc = scope.enc
     /\ hist.text = text) =>
        /\ last.exc = "none"
        /\ last.data = text

-----------------------------------------------------------------------------
(* mkdir *)

\* what is_dir and exists answer in the current state
IsDirAnswer(p, fsys) ==
    LET c == PathIsDir(Begin(0), p, fsys) IN Ok(c) /\ c.ret

ExistsAnswer(p, fsys) ==
    LET c == PathExists(Begin(0), p, fsys) IN Ok(c) /\ c.ret

CreateEvents == {"mkdir", "l.mkdir"}

\* mkdir on a path that is already a directory
C6Existing ==
    (Finished("mkdir") /\ IsDirAnswer(last'.p, last'.fsys)) =>
        /\ Untouched
        /\ IF last'.b
           THEN /\ last'.exc = "none"
                /\ \A i \in DOMAIN log' : log'[i].ev \notin CreateEvents
           ELSE last'.exc = "OSError"

\* mkdir on an absent path, as claimed: it always creates the directory
C6AbsentClaimed ==
    (Finished("mkdir") /\ ~ExistsAnswer(last'.p, last'.fsys)) =>
        /\ last'.exc = "none"
        /\ IsDirAnswer(last.p, last.fsys)'

\* mkdir on an absent path: the local backend insists on the parent unless
\* parents is set, the remote backend creates the missing ancestors
C6Absent ==
    (Finished("mkdir") /\ ~ExistsAnswer(last'.p, last'.fsys)) =>
        LET fsys == last'.fsys
            parents == last'.a
            fs == Addressed(local, remote, last'.p, fsys)
            k == KeyOf(last'.p, fsys)
            onLocal == fsys = 0 /\ IsLocal(last'.p)
        IN /\ (ParentIsDir(fs, k)
                  \/ (AncestorsOk(fs, k) /\ (parents \/ ~onLocal))) =>
                 /\ last'.exc = "none"
                 /\ IsDirAnswer(last.p, last.fsys)'
           /\ (onLocal /\ ~parents /\ ~FsExists(fs, Front(k))) =>
                 /\ last'.exc = "FileNotFoundError"
                 /\ Untouched
           /\ last'.exc = "none" => IsDirAnswer(last.p, last.fsys)'

\* C6 as stated: on both backends and with or without a handle, mkdir on a
\* path that is already a directory raises OSError when exist_ok is false and
\* returns without a create-directory call when exist_ok is true, the
\* filesystem unchanged in both cases; mkdir on an absent path returns and a
\* subsequent is_dir is true.
C6_MkdirAsClaimed == [][C6Existing /\ C6AbsentClaimed]_vars

\* C6: as above for a path that is already a directory; mkdir on an absent
\* path returns and makes a subsequent is_dir true when the parent is an
\* existing directory, or when the existing ancestors are directories and
\* either parents is set or the call goes to the remote backend; on the local
\* backend with parents unset and the parent missing it raises
\* FileNotFoundError and changes nothing; whenever it returns, a subsequent
\* is_dir is true.
C6_Mkdir == [][C6Existing /\ C6Absent]_vars

\* a local mkdir without parents has failed for want of the parent directory
C6_Witness ==
    /\ last.op = "mkdir"
    /\ ~last.faulted
    /\ last.fsys = 0
    /\ IsLocal(last.p)
    /\ ~last.a
    /\ last.exc = "FileNotFoundError"
    /\ ~FsExists(local, Front(LocalKey(last.p)))

-----------------------------------------------------------------------------
(* Path values at the level of characters: a string is a sequence of       *)
(* one-character strings.  Path.__init__, parent, is_hdfs and is_local use *)
(* no backend.                                                             *)

MaxArgs == 2

Sep == "/"

\* str.find(ch) + 1: the first position of ch in s, 0 when there is none
IndexOf(s, ch) ==
    IF \E i \in DOMAIN s : s[i] = ch
    THEN CHOOSE i \in DOMAIN s :
             s[i] = ch /\ \A j \in 1..(i - 1) : s[j] # ch
    ELSE 0

\* str.split("/")
RECURSIVE Split(_)
Split(s) ==
    LET i == IndexOf(s, Sep)
    IN IF i = 0 THEN <<s>>
       ELSE <<SubSeq(s, 1, i - 1)>> \o Split(SubSeq(s, i + 1, Len(s)))

\* "/".join(parts)
RECURSIVE JoinSep(_)
JoinSep(parts) ==
    IF parts = <<>> THEN <<>>
    ELSE IF Len(parts) = 1 THEN parts[1]
    ELSE parts[1] \o <<Sep>> \o JoinSep(Tail(parts))

\* one step of posixpath.join: an absolute b replaces what came before
OsPathJoin(a, b) ==
    IF b # <<>> /\ b[1] = Sep THEN b
    ELSE IF a = <<>> \/ Last(a) = Sep THEN a \o b
    ELSE a \o <<Sep>> \o b

RECURSIVE JoinAll(_, _)
JoinAll(path, rest) ==
    IF rest = <<>> THEN path
    ELSE JoinAll(OsPathJoin(path, Head(rest)), Tail(rest))

\* Path.__init__: os.path.join(*[str(arg) for arg in args])
PathInit(args) == JoinAll(Head(args), Tail(args))

\* a parent in the manner of pathlib: the root is its own parent and a
\* single segment has the parent "."
ParentStrPathlib(s) ==
    IF IndexOf(s, Sep) = 0 THEN <<".">>
    ELSE IF Len(Split(s)) = 2 /\ Split(s)[1] = <<>> THEN <<Sep>>
    ELSE JoinSep(Front(Split(s)))

\* Path.parent: Path("/".join(self.path.split("/")[:-1]))
ParentStr(s) == PathInit(<<JoinSep(Front(Split(s)))>>)

\* str.lower on the letters used here
CasePairs ==
    {<<"H", "h">>, <<"D", "d">>, <<"F", "f">>, <<"S", "s">>, <<"V", "v">>}

Lower(ch) ==
    IF \E q \in CasePairs : q[1] = ch
    THEN (CHOOSE q \in CasePairs : q[1] = ch)[2]
    ELSE ch

Letters ==
    {"a", "b", "d", "e", "f", "h", "i", "r", "s", "v", "w", "x",
     "H", "D", "F", "S", "V"}

\* urllib.parse.scheme_chars: letters, digits, "+", "-", "."
SchemeChars == Letters \cup {"1", "+", "-", "."}

\* a scheme taken as written, without folding it to lower case
UrlParseSchemeAsWritten(url) ==
    LET i == IndexOf(url, ":")
    IN IF /\ i > 1
          /\ url[1] \in Letters
          /\ \A k \in 1..(i - 1) : url[k] \in SchemeChars
       THEN SubSeq(url, 1, i - 1)
       ELSE <<>>

\* urlparse(url).scheme: the text before the first ":" when it starts with a
\* letter and holds scheme characters only, in lower case; "" otherwise
UrlParseScheme(url) ==
    LET i == IndexOf(url, ":")
    IN IF /\ i > 1
          /\ url[1] \in Letters
          /\ \A k \in 1..(i - 1) : url[k] \in SchemeChars
       THEN [k \in 1..(i - 1) |-> Lower(url[k])]
       ELSE <<>>

Hdfs == <<"h", "d", "f", "s">>

Viewfs == <<"v", "i", "e", "w", "f", "s">>

\* Path.is_hdfs
StrIsHdfs(s) == UrlParseScheme(s) \in {Hdfs, Viewfs}

\* Path.is_local
StrIsLocal(s) == ~StrIsHdfs(s)

\* the strings a caller builds paths from: plain, absolute and
\* separator-terminated segments, the empty string, and strings with and
\* without a scheme (no leading blanks and no all-digit remainder after the
\* colon, on which versions of urlparse differ)
Words ==
    {<<"a">>, <<"a", "/", "b">>, <<"/", "b">>, <<"a", "/">>, <<>>,
     Hdfs, Hdfs \o <<":">>, Hdfs \o <<":", "/", "a">>,
     Hdfs \o <<":", "/", "/">>, Hdfs \o <<":", "/", "/", "r">>,
     Hdfs \o <<":", "/", "/", "r", "/", "a">>,
     <<"H", "D", "F", "S", ":", "/", "/", "r">>,
     <<"H", "d", "f", "s", ":", "a">>,
     Viewfs \o <<":", "/", "/", "r", "/", "a">>,
     <<"f", ":", "/", "/", "r">>, Hdfs \o <<"x", ":", "/", "/", "r">>,
     <<"a", "/">> \o Hdfs \o <<":", "/", "/", "r">>,
     <<"1">> \o Hdfs \o <<":", "a">>}

ArgLists == SeqsUpTo(Words, MaxArgs) \ {<<>>}

InitPath ==
    /\ Setup
    /\ remote = EmptyTree
    /\ text = <<65>>
    /\ pure \in {[NoPure EXCEPT !.stage = "args", !.args = a] : a \in ArgLists}

\* Path(*args)
PathNew ==
    /\ pure.stage = "args"
    /\ pure' = [pure EXCEPT !.stage = "path", !.path = PathInit(pure.args)]
    /\ UNCHANGED <<local, remote, open, held, scope, log, last, hist, text,
                   nOps, ctx>>

\* path = path.parent
TakeParent ==
    /\ pure.stage \in {"path", "parent"}
    /\ pure.path # <<>>
    /\ pure' = [pure EXCEPT !.stage = "parent", !.from = pure.path,
                            !.path = ParentStr(pure.path),
                            !.classified = FALSE, !.hdfs = FALSE,
                            !.local = FALSE]
    /\ UNCHANGED <<local, remote, open, held, scope, log, last, hist, text,
                   nOps, ctx>>

\* path.is_hdfs, path.is_local
Classify ==
    /\ pure.stage \in {"path", "parent"}
    /\ ~pure.classified
    /\ pure' = [pure EXCEPT !.classified = TRUE,
                            !.hdfs = StrIsHdfs(pure.path),
                            !.local = StrIsLocal(pure.path)]
    /\ UNCHANGED <<local, remote, open, held, scope, log, last, hist, text,
                   nOps, ctx>>

NextPath == PathNew \/ TakeParent \/ Classify

SpecPath == InitPath /\ [][NextPath]_vars

-----------------------------------------------------------------------------
(* Classification, construction and parent of Path values *)

\* s begins with the letters of w in either case, followed by a colon
HasScheme(s, w) ==
    /\ Len(s) > Len(w)
    /\ s[Len(w) + 1] = ":"
    /\ \A i \in DOMAIN w :
          s[i] = w[i] \/ <<s[i], w[i]>> \in CasePairs

Components(s) == SelectSeq(Split(s), LAMBDA x : x # <<>>)

RECURSIVE AllComponents(_)
AllComponents(args) ==
    IF args = <<>> THEN <<>>
    ELSE Components(Head(args)) \o AllComponents(Tail(args))

\* no segment is empty, none but the first begins with the separator and
\* none but the last ends with it
PlainArgs(args) ==
    /\ \A i \in DOMAIN args : args[i] # <<>>
    /\ \A i \in 2..Len(args) : args[i][1] # Sep
    /\ \A i \in 1..(Len(args) - 1) : Last(args[i]) # Sep

\* C12: the string of Path(s1, ..., sn) is the segments joined by a single
\* separator: exactly s1/s2/.../sn for plain segments, and for every
\* sequence, also when a later segment begins with the separator or an
\* earlier one ends with it, the components of all the segments in order.
C12_SegmentsJoinedBySeparator ==
    pure.stage = "path" =>
        /\ PlainArgs(pure.args) => pure.path = JoinSep(pure.args)
        /\ Components(pure.path) = AllComponents(pure.args)

\* s without its final segment and the separator before it
LastIndexOf(s, ch) ==
    IF \E i \in DOMAIN s : s[i] = ch
    THEN CHOOSE i \in DOMAIN s :
             s[i] = ch /\ \A j \in (i + 1)..Len(s) : s[j] # ch
    ELSE 0

RemoveFinal(s) ==
    IF LastIndexOf(s, Sep) = 0 THEN <<>>
    ELSE SubSeq(s, 1, LastIndexOf(s, Sep) - 1)

\* scheme://host/segment...: a remote string with a segment after the host
RemoteWithSegment(s) ==
    /\ HasScheme(s, Hdfs) \/ HasScheme(s, Viewfs)
    /\ LET i == IndexOf(s, ":")
           rest == SubSeq(s, i + 1, Len(s))
       IN /\ Len(rest) >= 5
          /\ rest[1] = Sep
          /\ rest[2] = Sep
          /\ rest[3] # Sep
          /\ \E j \in 4..(Len(rest) - 1) : rest[j] = Sep /\ rest[j + 1] # Sep

\* C13: the parent of a path is its string without the final segment and
\* the separator before it; the parent of a single-segment path is the empty
\* string; the parent of a remote path with a segment after the host is
\* classified remote.
C13_ParentDropsFinalSegment ==
    pure.stage = "parent" =>
        /\ pure.path = RemoveFinal(pure.from)
        /\ IndexOf(pure.from, Sep) = 0 => pure.path = <<>>
        /\ (pure.classified /\ RemoteWithSegment(pure.from)) =>
              (pure.hdfs /\ ~pure.local)

\* the parent of hdfs://r/a is hdfs://r, and it is remote
C13_Witness ==
    /\ pure.stage = "parent"
    /\ pure.from = Hdfs \o <<":", "/", "/", "r", "/", "a">>
    /\ pure.path = Hdfs \o <<":", "/", "/", "r">>
    /\ pure.classified
    /\ pure.hdfs

-----------------------------------------------------------------------------
(* glob and iterdir *)

\* C14: iterating over glob(pattern) of a remote path yields no entry,
\* raises nothing and uses no connection, and copy_dir, which iterates over
\* the glob of its source, does not fail on it.
C14_RemoteGlobIsEmpty ==
    /\ (last.op = "glob" /\ IsHdfs(last.p)) =>
          /\ last.exc = "none"
          /\ last.list = <<>>
          /\ log = <<>>
    /\ last.op = "copy_dir" => last.exc # "TypeError"

\* the entries of a sequence, given and still to come, as keys
Entries(rec) == {RemoteKey((rec.data \o rec.list)[i]) :
                    i \in DOMAIN (rec.data \o rec.list)}

RemoteIterdir(rec) ==
    rec.op = "iterdir" /\ IsHdfs(rec.p) /\ rec.fsys = 0 /\ ~rec.faulted

C19Call ==
    (last.op = "none" /\ RemoteIterdir(last')) =>
        LET k == RemoteKey(last'.p)
        IN /\ open' = open
           /\ remote' = remote
           /\ \E id \in 1..(MaxOf(open) + 1) :
                 /\ id \notin open
                 /\ log' = IF FsExists(remote, k)
                           THEN <<Event("connect", id), Event("ls", id),
                                  Event("close", id)>>
                           ELSE <<Event("connect", id), Event("close", id)>>
           /\ FsExists(remote, k) <=> last'.exc = "none"
           /\ FsIsDir(remote, k) =>
                 /\ Entries(last') = FsChildren(remote, k)
                 /\ Len(last'.list) = Cardinality(FsChildren(remote, k))
                 /\ last'.data = <<>>

C19Consume ==
    (RemoteIterdir(last) /\ last'.op = "iterdir") =>
        /\ log' = log
        /\ open' = open
        /\ remote' = remote
        /\ last.list # <<>>
        /\ last'.data = Append(last.data, Head(last.list))
        /\ last'.list = Tail(last.list)
        /\ Entries(last') = Entries(last)

\* C19: iterdir on a remote path without a handle connects, lists and closes
\* the connection before it returns (connect and close alone when the
\* listing fails), and returns the direct children of that moment; taking the
\* entries afterwards makes no remote call, uses no connection and yields
\* those children one by one.
C19_ListingFetchedInsideScope == [][C19Call /\ C19Consume]_vars

\* the listing of a remote directory with two children has been consumed
C19_Witness ==
    /\ RemoteIterdir(last)
    /\ last.exc = "none"
    /\ last.list = <<>>
    /\ Len(last.data) = 2
    /\ log = <<Event("connect", 2), Event("ls", 2), Event("close", 2)>>
    /\ open = {held}

-----------------------------------------------------------------------------
(* Failed preconditions *)

IsFileAnswer(p, fsys) ==
    LET c == PathIsFile(Begin(0), p, fsys) IN Ok(c) /\ c.ret

MutatingEvents ==
    {"mkdir", "rm", "delete", "upload", "download", "stream.open",
     "l.mkdir", "l.rmtree", "l.unlink", "l.copy", "l.open"}

\* the operation failed its precondition
Refused(rec) ==
    \/ rec.op \in {"delete", "copy_file"} /\ ~IsFileAnswer(rec.p, rec.fsys)
    \/ rec.op \in {"delete_dir", "copy_dir"} /\ ~IsDirAnswer(rec.p, rec.fsys)
    \/ rec.op = "mkdir" /\ ~rec.b /\ IsDirAnswer(rec.p, rec.fsys)

C18Step ==
    (last.op = "none" /\ ~last'.faulted /\ Refused(last')) =>
        /\ last'.exc = IF last'.op = "mkdir" THEN "OSError"
                       ELSE "FileNotFoundError"
        /\ Untouched
        /\ \A i \in DOMAIN log' : log'[i].ev \notin MutatingEvents

\* C18: delete on a non-file, delete_dir on a non-directory, copy_file of a
\* non-file, copy_dir of a non-directory and mkdir without exist_ok on an
\* existing directory raise their error (FileNotFoundError, OSError for
\* mkdir) before any mutating primitive is issued: both backends are as
\* before, and copy_dir has not created dest.
C18_RefusedBeforeAnyMutation == [][C18Step]_vars

\* copy_dir of a path that is not a directory, to a dest that does not exist
C18_Witness ==
    /\ last.op = "copy_dir"
    /\ ~last.faulted
    /\ last.exc = "FileNotFoundError"
    /\ IsHdfs(last.dest)
    /\ ~FsExists(remote, RemoteKey(last.dest))

-----------------------------------------------------------------------------
(* The backend an operation acts on *)

C15Ops ==
    {"exists", "is_dir", "is_file", "mkdir", "delete", "delete_dir",
     "iterdir"}

\* the operation acted on the local backend alone
OnlyLocal == remote' = remote /\ \A i \in DOMAIN log' : log'[i].id = 0

\* the operation acted on the remote backend alone
OnlyRemote == local' = local /\ \A i \in DOMAIN log' : log'[i].id # 0

C15ByScheme ==
    (last.op = "none" /\ last'.op \in C15Ops /\ ~last'.faulted) =>
        IF IsLocal(last'.p) THEN OnlyLocal ELSE OnlyRemote

C15ByHandleThenScheme ==
    (last.op = "none" /\ last'.op \in C15Ops /\ ~last'.faulted) =>
        IF last'.fsys # 0
        THEN /\ local' = local
             /\ \A i \in DOMAIN log' : log'[i].id = last'.fsys
             /\ last'.exc = "none" => log' # <<>>
        ELSE IF IsLocal(last'.p) THEN OnlyLocal
        ELSE OnlyRemote

-----------------------------------------------------------------------------
(* Mode checks of HDFSFile.write and HDFSFile.read *)

WriteModes == {"w", "wb"}

ReadModes == {"r", "rb"}

\* the scope holds an HDFSFile: Path.open builds one for a remote path and
\* for a supplied handle
OnHDFSFile == scope.active /\ scope.backend = "remote"

\* the call was refused with the error of an invalid mode and the stream,
\* its position and both stores are as they were
C16Refused ==
    /\ last'.exc = "ValueError"
    /\ local' = local
    /\ remote' = remote
    /\ scope'.pos = scope.pos
    /\ scope'.written = scope.written

C16Step ==
    /\ (OnHDFSFile /\ last'.op = "write") =>
          IF scope.mode \in WriteModes THEN last'.exc # "ValueError"
          ELSE C16Refused
    /\ (OnHDFSFile /\ last'.op = "read") =>
          IF scope.mode \in ReadModes THEN last'.exc # "ValueError"
          ELSE C16Refused /\ last'.data = <<>>

-----------------------------------------------------------------------------
(* One HDFSContext instance entered, left and called any number of times *)

MaxCtxSteps == 4

CanStep == nOps < MaxCtxSteps

\* the operation context of a step on the instance: the event log goes on
CtxBegin(fault) == [Begin(fault) EXCEPT !.log = log]

\* "with ctx:" up to the body: __enter__ connects anew and overwrites
\* self._hdfs, whatever it held; when connect raises, the body is not entered
CtxEnter(fault) ==
    /\ CanStep
    /\ LET c == HDFSContextEnter(CtxBegin(fault))
       IN /\ c.fault <= c.n
          /\ open' = c.open
          /\ log' = c.log
          /\ ctx' = IF Ok(c)
                    THEN [ctx EXCEPT !.hdfs = c.conn, !.depth = @ + 1,
                                     !.mine = @ \cup {c.conn},
                                     !.call = "none"]
                    ELSE [ctx EXCEPT !.call = c.exc]
    /\ nOps' = nOps + 1
    /\ UNCHANGED <<local, remote, held, scope, last, hist, text, pure>>

\* the end of a "with ctx:" body: __exit__ closes whatever self._hdfs holds
CtxExit ==
    /\ CanStep
    /\ ctx.depth > 0
    /\ LET c == HDFSContextExit(CtxBegin(0), ctx.hdfs)
       IN /\ open' = c.open
          /\ log' = c.log
    /\ ctx' = [ctx EXCEPT !.depth = @ - 1, !.exited = TRUE, !.call = "none"]
    /\ nOps' = nOps + 1
    /\ UNCHANGED <<local, remote, held, scope, last, hist, text, pure>>

\* ctx.exists(path): __getattr__ hands the call to self._hdfs; None has no
\* such attribute
CtxCall(p, fault) ==
    /\ CanStep
    /\ LET c == IF ctx.hdfs = 0 THEN Raise(CtxBegin(fault), "AttributeError")
                ELSE RExists(CtxBegin(fault), ctx.hdfs, p)
       IN /\ c.fault <= c.n
          /\ log' = c.log
          /\ ctx' = [ctx EXCEPT !.call = IF Ok(c) THEN "ok" ELSE c.exc]
    /\ nOps' = nOps + 1
    /\ UNCHANGED <<local, remote, open, held, scope, last, hist, text, pure>>

NextCtx ==
    \/ \E fault \in Faults : CtxEnter(fault)
    \/ CtxExit
    \/ \E p \in TextPaths, fault \in Faults : CtxCall(p, fault)

SpecCtx == Init /\ [][NextCtx]_vars

\* the connections of the instance that are open
Live == ctx.mine \cap open

\* C17: over any sequence of entries, exits and delegated calls on one
\* HDFSContext, at most one of its connections is open at any time, no
\* connection it opened is open unless the instance refers to it, and once
\* the instance has been exited it never again refers to an open connection.
C17_OneConnectionNoReuse ==
    /\ Cardinality(Live) <= 1
    /\ Live \subseteq {ctx.hdfs}
    /\ ctx.exited => ctx.hdfs \notin open

=============================================================================
